---- MODULE Spec2Model ----
(***************************************************************************)
(* Blue Zone analysis: the overlay / aggregate / threshold / union         *)
(* pipeline of id_bluebelts_past.py, id_bluebelts_present.py and           *)
(* id_bluebelts_future.py, and the path helpers of common_paths.py.        *)
(*                                                                         *)
(* Data frames are modelled as tables [columns, rows]: columns is the      *)
(* sequence of column names, rows the sequence of rows, a row being the    *)
(* sequence of its cells in column order.  A cell is <<>> (NaN / null) or  *)
(* <<n>> (the number n).  Areas are whole numbers of square feet: on such  *)
(* values float64 addition, the CSV round trip and the comparison with     *)
(* 0.10 * area are exact, so a >= 0.10 * A is 10 * a >= A.                 *)
(***************************************************************************)
EXTENDS Integers, Sequences, FiniteSets, TLC

\* ------------------------------------------------------------------ bounds
\* number of atomic zones with a unique_id in the zone file
NumZones == 2
\* input units given to one run: units of overlap area plus 311 records
MaxInput == 2
\* merge steps taken in the merge loop on arbitrary tables
MaxMerges == 2

\* --------------------------------------------------------- program constants
\* final_df['Point_Coun'] >= 3
PointThreshold == 3
\* threshold = 0.10 * final_df['area']   (one tenth: a >= A / ThresholdDiv)
ThresholdDiv == 10

\* ------------------------------------------------------------------- cells
NaN == <<>>
Num(n) == <<n>>
IsNaN(c) == c = <<>>

\* a >= b on cells as pandas evaluates it: False when either side is NaN
Ge(a, b) == (~IsNaN(a)) /\ (~IsNaN(b)) /\ a[1] >= b[1]

\* series >= 0.10 * area
GeTenthMutStrict(a, area) == (~IsNaN(a)) /\ (~IsNaN(area)) /\ ThresholdDiv * a[1] > area[1]
GeTenth(a, area) == (~IsNaN(a)) /\ (~IsNaN(area)) /\ ThresholdDiv * a[1] >= area[1]

\* .astype(int) of a boolean
AsInt(b) == IF b THEN Num(1) ELSE Num(0)

\* ------------------------------------------------------------ sequences
Range(s) == {s[i] : i \in DOMAIN s}

RECURSIVE Flatten(_)
Flatten(ss) ==
    IF ss = <<>> THEN <<>> ELSE Head(ss) \o Flatten(Tail(ss))

\* the sequence of f(s[i])
Map(s, f(_)) == [i \in DOMAIN s |-> f(s[i])]

\* the group keys in the order pandas sorts them; the null key, where a
\* merge carries it, comes last
KeyOrder == [i \in 1..(NumZones + 1) |-> IF i <= NumZones THEN Num(i) ELSE NaN]

\* ------------------------------------------------------------------ tables
EmptyTable == [columns |-> <<>>, rows |-> <<>>]

HasCol(t, name) == name \in Range(t.columns)

ColCount(t, name) == Cardinality({i \in DOMAIN t.columns : t.columns[i] = name})

ColIndex(t, name) == CHOOSE i \in DOMAIN t.columns :
    /\ t.columns[i] = name
    /\ \A j \in DOMAIN t.columns : t.columns[j] = name => i <= j

\* row[name]
Cell(t, row, name) == row[ColIndex(t, name)]

\* df[name] = values  (a new column is appended, an existing one replaced)
SetCol(t, name, f(_)) ==
    IF HasCol(t, name)
    THEN [t EXCEPT !.rows = Map(t.rows, LAMBDA r : [r EXCEPT ![ColIndex(t, name)] = f(r)])]
    ELSE [columns |-> Append(t.columns, name),
          rows |-> Map(t.rows, LAMBDA r : Append(r, f(r)))]

\* df.get(name, 0) == 1, per row
GetIsOne(t, row, name) == HasCol(t, name) /\ Cell(t, row, name) = Num(1)

\* ------------------------------------------------------- groupby / agg
\* an overlay fragment: the owning zone's unique_id (NaN when the zone record
\* has none), the fragment's area, and the layer attributes it carries
Fragment(uid, a) == [unique_id |-> uid, area |-> a, flag |-> 1, fldC |-> 1]

\* 'sum': the areas added up in the order the fragments occur
RECURSIVE SumFrom(_, _)
SumFrom(acc, frs) ==
    IF frs = <<>> THEN acc ELSE SumFrom(acc + Head(frs).area, Tail(frs))

SumAreaMutLast(frs) == IF frs = <<>> THEN 0 ELSE frs[Len(frs)].area
SumArea(frs) == SumFrom(0, frs)

\* the input units a fragment sequence takes from the run's budget
Units(frs) == SumFrom(0, frs)

\* the records of one group
GroupOf(recs, k) == SelectSeq(recs, LAMBDA f : f.unique_id = k)

\* groupby('unique_id'): the distinct keys, sorted; records whose key is
\* null belong to no group (dropna)
GroupKeys(recs) ==
    SelectSeq(KeyOrder, LAMBDA k : (~IsNaN(k)) /\ (\E f \in Range(recs) : f.unique_id = k))

\* the number of records groupby leaves out
NullKeyCount(recs) == Len(SelectSeq(recs, LAMBDA f : IsNaN(f.unique_id)))

\* Variant: the aggregate name keeps only the first character of flag_field
NewFieldNameMutFirstChar(flag_field) == SubSeq(flag_field, 1, 1) \o "A"

\* new_field_name = flag_field[:-2] + 'A'
NewFieldName(flag_field) == SubSeq(flag_field, 1, Len(flag_field) - 2) \o "A"

\* df.groupby('unique_id').agg({new_field_name: 'sum', flag_field: 'first'
\* [, flood_type: 'first']}).reset_index()
Dissolve(frs, flag_field, classCols) ==
    [columns |-> <<"unique_id", NewFieldName(flag_field), flag_field>> \o classCols,
     rows |-> Map(GroupKeys(frs), LAMBDA k :
                  <<k, Num(SumArea(GroupOf(frs, k))), Num(Head(GroupOf(frs, k)).flag)>>
                  \o [i \in DOMAIN classCols |-> Num(Head(GroupOf(frs, k)).fldC)])]

\* present_311_df[keep_cols].groupby('unique_id').agg({'depcall': 'first',
\* 'Point_Coun': 'first'}).reset_index()
Dissolve311(recs) ==
    [columns |-> <<"unique_id", "depcall", "Point_Coun">>,
     rows |-> Map(GroupKeys(recs), LAMBDA k :
                  <<k, Num(Head(GroupOf(recs, k)).depcall),
                    Num(Head(GroupOf(recs, k)).Point_Coun)>>)]

\* ------------------------------------------------------------------ merge
\* the non-key columns; every table here has the key 'unique_id' first
NonKey(t) == Tail(t.columns)

\* pandas renames a non-key column only when the other side has one of the
\* same name, by appending that side's suffix
Renamed(cols, other, suffix) ==
    [i \in DOMAIN cols |-> IF cols[i] \in Range(other) THEN cols[i] \o suffix ELSE cols[i]]

MergedColumns(left, right, suffixes) ==
    <<"unique_id">> \o Renamed(NonKey(left), NonKey(right), suffixes[1])
                    \o Renamed(NonKey(right), NonKey(left), suffixes[2])

NaNs(n) == [i \in 1..n |-> NaN]

RowsWithKey(t, k) == SelectSeq(t.rows, LAMBDA r : r[1] = k)

\* the joined rows of one key: every left row with every right row, a side
\* without a row for the key filled with NaN
JoinKey(left, right, k) ==
    LET L == RowsWithKey(left, k)
        R == RowsWithKey(right, k)
        LL == IF L = <<>> THEN << <<k>> \o NaNs(Len(NonKey(left))) >> ELSE L
        RR == IF R = <<>> THEN << <<k>> \o NaNs(Len(NonKey(right))) >> ELSE R
    IN  Flatten([i \in DOMAIN LL |-> [j \in DOMAIN RR |-> LL[i] \o Tail(RR[j])]])

HasKey(t, k) == \E r \in Range(t.rows) : r[1] = k

\* left.merge(right, on='unique_id', how='outer', suffixes=suffixes)
MergeOuter(left, right, suffixes) ==
    [columns |-> MergedColumns(left, right, suffixes),
     rows |-> Flatten([i \in DOMAIN KeyOrder |->
                  IF HasKey(left, KeyOrder[i]) \/ HasKey(right, KeyOrder[i])
                  THEN JoinKey(left, right, KeyOrder[i]) ELSE <<>>])]

\* left.merge(right, on='unique_id', how='left', suffixes=suffixes)
MergeLeftMutInner(left, right, suffixes) ==
    [columns |-> MergedColumns(left, right, suffixes),
     rows |-> Flatten([i \in DOMAIN left.rows |->
                  [j \in DOMAIN RowsWithKey(right, left.rows[i][1]) |->
                      left.rows[i] \o Tail(RowsWithKey(right, left.rows[i][1])[j])]])]
MergeLeft(left, right, suffixes) ==
    [columns |-> MergedColumns(left, right, suffixes),
     rows |-> Flatten([i \in DOMAIN left.rows |->
                  LET R == RowsWithKey(right, left.rows[i][1])
                      RR == IF R = <<>> THEN << <<left.rows[i][1]>> \o NaNs(Len(NonKey(right))) >>
                            ELSE R
                  IN  [j \in DOMAIN RR |-> left.rows[i] \o Tail(RR[j])]])]

\* suffix = f"_{suffix_counter}"
Suffix(suffix_counter) == "_" \o ToString(suffix_counter)

\* final_df = dataframes[0]; for df in dataframes[1:]: suffix_counter += 1;
\* final_df = final_df.merge(df, how='outer', suffixes=(suffix, suffix))
RECURSIVE MergeLoop(_, _, _)
MergeLoop(final, dataframes, suffix_counter) ==
    IF dataframes = <<>> THEN final
    ELSE MergeLoop(MergeOuter(final, Head(dataframes),
                              <<Suffix(suffix_counter + 1), Suffix(suffix_counter + 1)>>),
                   Tail(dataframes), suffix_counter + 1)

MergeAll(dataframes) == MergeLoop(Head(dataframes), Tail(dataframes), 0)

\* ------------------------------------------------------ layer configuration
shapefiles_future ==
    << [flag_field |-> "mod_2050", flood_type |-> "mo_20_fldC"],
       [flag_field |-> "ext_2080", flood_type |-> "ex_20_fldC"],
       [flag_field |-> "500yr"] >>

shapefiles_present ==
    << [flag_field |-> "depcall"],
       [flag_field |-> "mod_cur"],
       [flag_field |-> "100yr"] >>

shapefiles_past ==
    << [flag_field |-> "beaches"],
       [flag_field |-> "river"],
       [flag_field |-> "fresh_wetl"],
       [flag_field |-> "marine"],
       [flag_field |-> "pond"],
       [flag_field |-> "saltmarsh"],
       [flag_field |-> "streams"],
       [flag_field |-> "dunes"],
       [flag_field |-> "tidal_cree"],
       [flag_field |-> "int_stream"] >>

Epochs == {"past", "present", "future"}

Shapefiles(e) ==
    CASE e = "past" -> shapefiles_past
      [] e = "present" -> shapefiles_present
      [] e = "future" -> shapefiles_future

\* the first entry the overlay loop visits: the present loop runs over
\* shapefiles_present[1:] and leaves the 311 point layer out
FirstOverlay(e) == IF e = "present" THEN 2 ELSE 1

\* the layers the overlay loop visits
OverlayLayers(e) == SubSeq(Shapefiles(e), FirstOverlay(e), Len(Shapefiles(e)))

\* the extra 'first' columns of the i-th entry's aggregation
ClassCols(e, i) ==
    CASE e = "future" ->
            IF i - 1 <= 1 /\ "flood_type" \in DOMAIN shapefiles_future[i]
            THEN <<shapefiles_future[i].flood_type>> ELSE <<>>
      [] e = "present" -> IF i - 1 = 1 THEN <<"mo_cu_fldC">> ELSE <<>>
      [] e = "past" -> <<>>

\* the intermediate shapefile of a layer
ShpName(e, flag_field) ==
    IF e = "past" THEN flag_field \o "_dissolved.shp" ELSE flag_field \o "_notdissolved.shp"

CsvName(flag_field) == flag_field \o "_dissolved.csv"

\* Variant: the union file is named without the epoch
UnionNameMutNoEpoch(e) == "union.csv"

UnionName(e) == e \o "_union.csv"

\* Variant: the union looks the flags up under the untruncated layer names
UnionFlagsMutUntruncated(e) ==
    CASE e = "future" -> <<"mod_2050Afg", "ext_2080Afg", "500yrAfg">>
      [] e = "present" -> <<"depcallAfg", "mod_curAfg", "100yrAfg">>
      [] e = "past" -> <<>>

\* the names BZ_<epoch> looks up with final_df.get(name, 0)
UnionFlags(e) ==
    CASE e = "future" -> <<"mod_20Afg", "ext_20Afg", "500Afg">>
      [] e = "present" -> <<"depcaAfg", "mod_cAfg", "100Afg">>
      [] e = "past" -> <<>>

\* ------------------------------------------------------------------ inputs
\* the area of zone z: one unit of overlap area is exactly one tenth of
\* zone 1, and less than one tenth of every other zone
ZoneArea(z) == ThresholdDiv * z

\* Point_Coun values around the count threshold
PointCounts == (PointThreshold - 1) .. (PointThreshold + 1)

\* the zone tables a zone file can hold: NumZones zones with pairwise
\* distinct ids and, possibly, one more record without a unique_id
ZoneTables ==
    { [columns |-> <<"unique_id", "area">>,
       rows |-> [z \in 1..NumZones |-> <<Num(z), Num(ZoneArea(z))>>] \o extra]
      : extra \in { <<>>, << <<NaN, Num(ZoneArea(1))>> >> } }

ZoneIds(zones) == {r[1] : r \in Range(zones.rows)}

\* the fragment sequences an overlay can return within b units of area
RECURSIVE FragSeqs(_, _)
FragSeqs(b, ids) ==
    {<<>>} \cup UNION { { <<Fragment(p[1], p[2])>> \o s : s \in FragSeqs(b - p[2], ids) }
                        : p \in ids \X (1..b) }

\* the 311 records within b records; the records of one zone carry the
\* zone's point count
RECURSIVE RecSeqs(_, _)
RecSeqs(b, ids) ==
    IF b = 0 THEN {<<>>}
    ELSE {<<>>} \cup
         { <<[unique_id |-> p[1], depcall |-> 1, Point_Coun |-> p[2]]>> \o s
           : p \in ids \X PointCounts, s \in RecSeqs(b - 1, ids) }

Consistent(recs) ==
    \A i, j \in DOMAIN recs :
        recs[i].unique_id = recs[j].unique_id => recs[i].Point_Coun = recs[j].Point_Coun

\* ------------------------------------------------- threshold and union
\* for n in new_field_names: final_df[n + 'fg'] = (final_df[n] >= 0.10 * area).astype(int)
RECURSIVE AreaFlags(_, _)
AreaFlags(t, names) ==
    IF names = <<>> THEN t
    ELSE AreaFlags(SetCol(t, Head(names) \o "fg",
                          LAMBDA r : AsInt(GeTenth(Cell(t, r, Head(names)), Cell(t, r, "area")))),
                   Tail(names))

\* final_df[n] and final_df['area'] each name one column
CanThreshold(t, names) ==
    /\ ColCount(t, "area") = 1
    /\ \A n \in Range(names) : ColCount(t, n) = 1

\* final_df['depcaAfg'] = 0; where Point_Coun >= 3: 1
PointFlagMutStrict(t) ==
    SetCol(t, "depcaAfg",
           LAMBDA r : AsInt(HasCol(t, "Point_Coun")
                            /\ (~IsNaN(Cell(t, r, "Point_Coun")))
                            /\ Cell(t, r, "Point_Coun")[1] > PointThreshold))
PointFlag(t) ==
    SetCol(t, "depcaAfg",
           LAMBDA r : AsInt(HasCol(t, "Point_Coun")
                            /\ Ge(Cell(t, r, "Point_Coun"), Num(PointThreshold))))

\* final_df['BZ_<epoch>'] = 0; where any of the looked-up flags == 1: 1
UnionFlagMutFirst(t, e) ==
    SetCol(t, "BZ_" \o e, LAMBDA r : AsInt(GetIsOne(t, r, UnionFlags(e)[1])))
UnionFlag(t, e) ==
    SetCol(t, "BZ_" \o e,
           LAMBDA r : AsInt(\E i \in DOMAIN UnionFlags(e) : GetIsOne(t, r, UnionFlags(e)[i])))

\* final_df[new_field_names].sum(axis=1): NaN cells are skipped
RECURSIVE RowSum(_, _, _)
RowSum(t, r, names) ==
    IF names = <<>> THEN 0
    ELSE (IF IsNaN(Cell(t, r, Head(names))) THEN 0 ELSE Cell(t, r, Head(names))[1])
         + RowSum(t, r, Tail(names))

PastSum(t, names) == SetCol(t, "past_sum", LAMBDA r : Num(RowSum(t, r, names)))

\* final_df['BZ_past'] = (final_df['past_sum'] >= 0.10 * area).astype(int)
PastFlag(t) ==
    SetCol(t, "BZ_past", LAMBDA r : AsInt(GeTenth(Cell(t, r, "past_sum"), Cell(t, r, "area"))))

\* ================================================================ state
\* the epoch run (Spec)
VARIABLES
    epoch,                \* which script runs: "past", "present" or "future"
    pc,                   \* the statement the script is at
    loaded,               \* how many gpd.read_file calls have returned
    idx,                  \* the entry of the layer list the loop is at
    budget,               \* input units not yet handed to the run
    atomic_polygons,      \* the zone table with its area column
    present_311,          \* the records of the 311 point layer
    intersection_result,  \* the fragments of the layer overlaid last
    new_field_names,      \* the aggregate column names, in loop order
    dataframes,           \* the per-layer dissolved tables, in loop order
    final_df,             \* the merged table
    files,                \* the names of the files the run has written
    printed,              \* what the run has printed
    failed_at             \* where the run raised, <<>> while it has not

runVars == <<epoch, pc, loaded, idx, budget, atomic_polygons, present_311,
             intersection_result, new_field_names, dataframes, final_df,
             files, printed, failed_at>>

\* the merge loop on arbitrary tables (SpecMerge)
VARIABLES
    merged,          \* final_df of the merge loop
    suffix_counter,  \* the loop's counter
    merge_pc         \* "start", "loop" or "failed"

mergeVars == <<merged, suffix_counter, merge_pc>>

\* the output directories of the three epoch processes (SpecPaths)
VARIABLES
    env,                   \* BLUEZONES_BASE_DIR and BLUEZONES_OUTPUT_DIR
    path_pc,               \* per epoch process: "start", "shp", "ready" (at the
                           \* loop's shapefile), "csv", "union" or "done"
    layer_idx,             \* per epoch process: the entry its loop is at
    written,               \* per epoch process: the file paths it has written
    output_directory,      \* per epoch process
    output_directory_shp,  \* per epoch process
    dirs                   \* the directories that exist (resolved)

pathVars == <<env, path_pc, layer_idx, written, output_directory, output_directory_shp, dirs>>

\* ===================================================== the epoch run
Msg(text, arg) == [text |-> text, arg |-> arg]

InitRun ==
    /\ epoch \in Epochs
    /\ pc = "load"
    /\ loaded = 0
    /\ idx = 0
    /\ budget = MaxInput
    /\ atomic_polygons = EmptyTable
    /\ present_311 = <<>>
    /\ intersection_result = <<>>
    /\ new_field_names = <<>>
    /\ dataframes = <<>>
    /\ final_df = EmptyTable
    /\ files = {}
    /\ printed = <<>>
    /\ failed_at = <<>>

\* atomic_polygons = gpd.read_file(atomic_polygons_path); its area column is
\* a function of the geometry read here
LoadAtomic ==
    /\ pc = "load" /\ loaded = 0
    /\ atomic_polygons' \in ZoneTables
    /\ loaded' = 1
    /\ UNCHANGED <<epoch, pc, idx, budget, present_311, intersection_result,
                   new_field_names, dataframes, final_df, files, printed, failed_at>>
    /\ UNCHANGED <<mergeVars, pathVars>>

\* <layer> = gpd.read_file(<layer>_path), one call per entry of the layer
\* list; after the last one the script prints and enters the overlay loop
LoadLayer ==
    /\ pc = "load" /\ loaded >= 1
    /\ IF epoch = "present" /\ loaded = 1
       THEN \E recs \in RecSeqs(budget, ZoneIds(atomic_polygons)) :
                /\ Consistent(recs)
                /\ present_311' = recs
                /\ budget' = budget - Len(recs)
       ELSE UNCHANGED <<present_311, budget>>
    /\ loaded' = loaded + 1
    /\ IF loaded = Len(Shapefiles(epoch))
       THEN /\ pc' = "overlay"
            /\ idx' = FirstOverlay(epoch)
            /\ printed' = printed \o <<Msg("layers loaded", epoch),
                                       Msg("shapefile list created", epoch)>>
       ELSE UNCHANGED <<pc, idx, printed>>
    /\ UNCHANGED <<epoch, atomic_polygons, intersection_result, new_field_names,
                   dataframes, final_df, files, failed_at>>
    /\ UNCHANGED <<mergeVars, pathVars>>

\* intersection_result = gpd.overlay(atomic_polygons, gdf, how='intersection');
\* new_field_names.append(new_field_name); the fragment areas; the
\* intermediate shapefile
Overlay ==
    /\ pc = "overlay"
    /\ \E frs \in FragSeqs(budget, ZoneIds(atomic_polygons)) :
           /\ intersection_result' = frs
           /\ budget' = budget - Units(frs)
    /\ new_field_names' = Append(new_field_names, NewFieldName(Shapefiles(epoch)[idx].flag_field))
    /\ files' = files \cup {ShpName(epoch, Shapefiles(epoch)[idx].flag_field)}
    /\ pc' = "aggregate"
    /\ UNCHANGED <<epoch, loaded, idx, atomic_polygons, present_311, dataframes,
                   final_df, printed, failed_at>>
    /\ UNCHANGED <<mergeVars, pathVars>>

\* dissolved_df = df.groupby('unique_id').agg(...); to_csv; the table is
\* what pd.read_csv gives back before the merge
Aggregate ==
    /\ pc = "aggregate"
    /\ dataframes' = Append(dataframes,
                            Dissolve(intersection_result, Shapefiles(epoch)[idx].flag_field,
                                     ClassCols(epoch, idx)))
    /\ files' = files \cup {CsvName(Shapefiles(epoch)[idx].flag_field)}
    /\ printed' = Append(printed, Msg("Exported", CsvName(Shapefiles(epoch)[idx].flag_field)))
    /\ idx' = idx + 1
    /\ pc' = IF idx < Len(Shapefiles(epoch)) THEN "overlay"
             ELSE IF epoch = "present" THEN "points" ELSE "merge"
    /\ UNCHANGED <<epoch, loaded, budget, atomic_polygons, present_311,
                   intersection_result, new_field_names, final_df, failed_at>>
    /\ UNCHANGED <<mergeVars, pathVars>>

\* present only: present_311_csv = ...groupby('unique_id').agg(first);
\* dataframes.append(present_311_csv)
Points311 ==
    /\ pc = "points"
    /\ dataframes' = Append(dataframes, Dissolve311(present_311))
    /\ pc' = "merge"
    /\ UNCHANGED <<epoch, loaded, idx, budget, atomic_polygons, present_311,
                   intersection_result, new_field_names, final_df, files, printed, failed_at>>
    /\ UNCHANGED <<mergeVars, pathVars>>

\* the left merge onto the zone table of the outer-merged table m; the past
\* script adds past_sum in between
MergedTable(e, zones, m, names) ==
    IF e = "past"
    THEN MergeLeft(zones, PastSum(m, names), <<"_x", "_y">>)
    ELSE MergeLeft(zones, m, <<"_x", "_y">>)

\* dataframes[0] exists, and final_df[new_field_names] names existing columns
CanMerge(e, dfs, names) ==
    /\ dfs # <<>>
    /\ e = "past" => \A n \in Range(names) : ColCount(MergeAll(dfs), n) = 1

Merge ==
    /\ pc = "merge"
    /\ LET m == MergeAll(dataframes)
       IN  IF CanMerge(epoch, dataframes, new_field_names)
           THEN /\ final_df' = MergedTable(epoch, atomic_polygons, m, new_field_names)
                /\ pc' = "threshold"
                /\ UNCHANGED failed_at
           ELSE /\ pc' = "failed"
                /\ failed_at' = <<"merge">>
                /\ UNCHANGED final_df
    /\ printed' = IF epoch = "present" THEN printed
                  ELSE Append(printed, Msg("new_field_names", ""))
    /\ UNCHANGED <<epoch, loaded, idx, budget, atomic_polygons, present_311,
                   intersection_result, new_field_names, dataframes, files>>
    /\ UNCHANGED <<mergeVars, pathVars>>

\* the per-layer flags and the epoch flag
Flagged(e, t, names) ==
    CASE e = "past" -> PastFlag(t)
      [] e = "present" -> UnionFlag(AreaFlags(PointFlag(t), names), e)
      [] e = "future" -> UnionFlag(AreaFlags(t, names), e)

CanFlag(e, t, names) ==
    IF e = "past" THEN ColCount(t, "past_sum") = 1 /\ ColCount(t, "area") = 1
    ELSE CanThreshold(t, names)

Threshold ==
    /\ pc = "threshold"
    /\ IF CanFlag(epoch, final_df, new_field_names)
       THEN /\ final_df' = Flagged(epoch, final_df, new_field_names)
            /\ pc' = "write"
            /\ UNCHANGED failed_at
       ELSE /\ pc' = "failed"
            /\ failed_at' = <<"threshold">>
            /\ UNCHANGED final_df
    /\ UNCHANGED <<epoch, loaded, idx, budget, atomic_polygons, present_311,
                   intersection_result, new_field_names, dataframes, files, printed>>
    /\ UNCHANGED <<mergeVars, pathVars>>

\* final_df.to_csv(output_directory / '<epoch>_union.csv')
WriteFinal ==
    /\ pc = "write"
    /\ files' = files \cup {UnionName(epoch)}
    /\ printed' = Append(printed, Msg("Final CSV saved", UnionName(epoch)))
    /\ pc' = "done"
    /\ UNCHANGED <<epoch, loaded, idx, budget, atomic_polygons, present_311,
                   intersection_result, new_field_names, dataframes, final_df, failed_at>>
    /\ UNCHANGED <<mergeVars, pathVars>>

\* Variant: the failure of a layer's overlay is swallowed and the loop goes
\* on with the next layer
RaiseMutSkip ==
    /\ pc = "overlay"
    /\ idx' = idx + 1
    /\ pc' = IF idx < Len(Shapefiles(epoch)) THEN "overlay"
             ELSE IF epoch = "present" THEN "points" ELSE "merge"
    /\ UNCHANGED <<epoch, loaded, budget, atomic_polygons, present_311,
                   intersection_result, new_field_names, dataframes, final_df,
                   files, printed, failed_at>>
    /\ UNCHANGED <<mergeVars, pathVars>>

\* a call into the geometry engine or the file system raises: the exception
\* is not caught, the interpreter prints the traceback and the script ends
Raise ==
    /\ pc \in {"load", "overlay", "aggregate", "points", "write"}
    /\ failed_at' = IF pc = "load" THEN <<pc, loaded>> ELSE <<pc, idx>>
    /\ pc' = "failed"
    /\ UNCHANGED <<epoch, loaded, idx, budget, atomic_polygons, present_311,
                   intersection_result, new_field_names, dataframes, final_df,
                   files, printed>>
    /\ UNCHANGED <<mergeVars, pathVars>>

NextRun ==
    \/ LoadAtomic
    \/ LoadLayer
    \/ Overlay
    \/ Aggregate
    \/ Points311
    \/ Merge
    \/ Threshold
    \/ WriteFinal
    \/ Raise

\* ====================================== the merge loop on arbitrary tables

\* column names a per-layer table can carry besides the key
ColNames == {"a", "a_2"}

\* per-layer tables: pairwise distinct column names, one row
GenericTables ==
    { [columns |-> <<"unique_id">> \o cols, rows |-> << <<k>> \o [i \in DOMAIN cols |-> Num(1)] >>]
      : cols \in { c \in UNION {[1..n -> ColNames] : n \in 1..2} :
                     \A i, j \in DOMAIN c : i # j => c[i] # c[j] },
        k \in {Num(1), Num(NumZones)} }

\* pandas' check on the renamed labels of one side: a label the suffix made
\* equal to another label of the same side
SideDuplicates(cols, other, suffix) ==
    \E i, j \in DOMAIN cols :
        /\ i # j
        /\ Renamed(cols, other, suffix)[i] = Renamed(cols, other, suffix)[j]
        /\ cols[i] # cols[j]

SuffixDuplicates(left, right, suffixes) ==
    \/ SideDuplicates(NonKey(left), NonKey(right), suffixes[1])
    \/ SideDuplicates(NonKey(right), NonKey(left), suffixes[2])

InitMerge ==
    /\ merged = EmptyTable
    /\ suffix_counter = 0
    /\ merge_pc = "start"

\* final_df = dataframes[0]; suffix_counter = 0
MergeFirst ==
    /\ merge_pc = "start"
    /\ merged' \in GenericTables
    /\ suffix_counter' = 0
    /\ merge_pc' = "loop"
    /\ UNCHANGED <<runVars, pathVars>>

\* the suffixes of a merge step: suffixes=(suffix, suffix)
StepSuffixes(counter) == <<Suffix(counter), Suffix(counter)>>

\* one pass of the loop body
MergeStep ==
    /\ merge_pc = "loop"
    /\ suffix_counter < MaxMerges
    /\ \E df \in GenericTables :
           merged' = MergeOuter(merged, df, StepSuffixes(suffix_counter + 1))
    /\ suffix_counter' = suffix_counter + 1
    /\ UNCHANGED merge_pc
    /\ UNCHANGED <<runVars, pathVars>>

\* pandas 2 raises MergeError where a suffix duplicates a label within one
\* side (pandas 1 warns and goes on, which is MergeStep)
MergeRaises ==
    /\ merge_pc = "loop"
    /\ suffix_counter < MaxMerges
    /\ \E df \in GenericTables :
           SuffixDuplicates(merged, df, StepSuffixes(suffix_counter + 1))
    /\ suffix_counter' = suffix_counter + 1
    /\ merge_pc' = "failed"
    /\ UNCHANGED merged
    /\ UNCHANGED <<runVars, pathVars>>

NextMerge ==
    \/ MergeFirst
    \/ MergeStep
    \/ MergeRaises

\* ================================================= the output directories

\* a path is the sequence of its components; an absolute path starts with "/"
\* and Path("") is the empty relative path "."
Cwd == <<"/", "cwd">>

Unset == [set |-> FALSE, value |-> <<>>]
SetTo(p) == [set |-> TRUE, value |-> p]

\* the settings of an override: unset, empty, an absolute and a relative path
EnvSettings(name) == {Unset, SetTo(<<>>), SetTo(<<"/", name>>), SetTo(<<name>>)}

\* Path.resolve(): a relative path is taken from the working directory
Resolve(p) == IF p # <<>> /\ p[1] = "/" THEN p ELSE Cwd \o p

\* base_dir(): Path(os.getenv("BLUEZONES_BASE_DIR", ".")).resolve()
base_dir(e) == Resolve(IF e.BLUEZONES_BASE_DIR.set THEN e.BLUEZONES_BASE_DIR.value ELSE <<>>)

\* the default_subdir each script passes to output_dir
DefaultSubdir(ep) == <<"output_csv", ep>>

\* output_dir(default_subdir): the override when it is set and not empty,
\* else base_dir() / default_subdir
output_dirMutNoSubdir(e, default_subdir) ==
    IF e.BLUEZONES_OUTPUT_DIR.set /\ e.BLUEZONES_OUTPUT_DIR.value # <<>>
    THEN e.BLUEZONES_OUTPUT_DIR.value
    ELSE base_dir(e) \o <<"output_csv">>
output_dir(e, default_subdir) ==
    IF e.BLUEZONES_OUTPUT_DIR.set /\ e.BLUEZONES_OUTPUT_DIR.value # <<>>
    THEN e.BLUEZONES_OUTPUT_DIR.value
    ELSE base_dir(e) \o default_subdir

\* shapefile_subdir(parent): parent / "shapefiles"
shapefile_subdir(parent) == parent \o <<"shapefiles">>

\* p.mkdir(parents=True, exist_ok=True)
Mkdir(ds, p) == ds \cup {SubSeq(Resolve(p), 1, n) : n \in 1..Len(Resolve(p))}

InitPaths ==
    /\ env \in [BLUEZONES_BASE_DIR : EnvSettings("data"), BLUEZONES_OUTPUT_DIR : EnvSettings("out")]
    /\ path_pc = [ep \in Epochs |-> "start"]
    /\ layer_idx = [ep \in Epochs |-> FirstOverlay(ep)]
    /\ written = [ep \in Epochs |-> {}]
    /\ output_directory = [ep \in Epochs |-> <<>>]
    /\ output_directory_shp = [ep \in Epochs |-> <<>>]
    /\ dirs = {<<"/">>, Cwd}

\* output_directory = output_dir("output_csv/<epoch>")
ResolveOutputDir(ep) ==
    /\ path_pc[ep] = "start"
    /\ output_directory' = [output_directory EXCEPT ![ep] = output_dir(env, DefaultSubdir(ep))]
    /\ dirs' = Mkdir(dirs, output_dir(env, DefaultSubdir(ep)))
    /\ path_pc' = [path_pc EXCEPT ![ep] = "shp"]
    /\ UNCHANGED <<env, layer_idx, written, output_directory_shp>>
    /\ UNCHANGED <<runVars, mergeVars>>

\* output_directory_shp = shapefile_subdir(output_directory)
ResolveShpDir(ep) ==
    /\ path_pc[ep] = "shp"
    /\ output_directory_shp' = [output_directory_shp EXCEPT ![ep] = shapefile_subdir(output_directory[ep])]
    /\ dirs' = Mkdir(dirs, shapefile_subdir(output_directory[ep]))
    /\ path_pc' = [path_pc EXCEPT ![ep] = "ready"]
    /\ UNCHANGED <<env, layer_idx, written, output_directory>>
    /\ UNCHANGED <<runVars, mergeVars>>

\* the files to_file(<stem>.shp) leaves: the shapefile and its sidecars
ShpFiles(shp_name) ==
    {SubSeq(shp_name, 1, Len(shp_name) - 4) \o ext : ext \in {".shp", ".shx", ".dbf", ".prj", ".cpg"}}

\* intersection_result.to_file(output_directory_shp / shp_filename) for the
\* entry the loop is at
WriteShp(ep) ==
    /\ path_pc[ep] = "ready"
    /\ written' = [written EXCEPT ![ep] = @ \cup
                      {Resolve(output_directory_shp[ep] \o <<f>>) :
                           f \in ShpFiles(ShpName(ep, Shapefiles(ep)[layer_idx[ep]].flag_field))}]
    /\ path_pc' = [path_pc EXCEPT ![ep] = "csv"]
    /\ UNCHANGED <<env, layer_idx, output_directory, output_directory_shp, dirs>>
    /\ UNCHANGED <<runVars, mergeVars>>

\* dissolved_df.to_csv(output_directory / csv_filename) for the entry the
\* loop is at, and on to the next entry
WriteCsv(ep) ==
    /\ path_pc[ep] = "csv"
    /\ written' = [written EXCEPT ![ep] = @ \cup
                      {Resolve(output_directory[ep] \o <<CsvName(Shapefiles(ep)[layer_idx[ep]].flag_field)>>)}]
    /\ layer_idx' = [layer_idx EXCEPT ![ep] = @ + 1]
    /\ path_pc' = [path_pc EXCEPT ![ep] =
                      IF layer_idx[ep] < Len(Shapefiles(ep)) THEN "ready" ELSE "union"]
    /\ UNCHANGED <<env, output_directory, output_directory_shp, dirs>>
    /\ UNCHANGED <<runVars, mergeVars>>

\* final_df.to_csv(output_directory / '<epoch>_union.csv')
WriteUnion(ep) ==
    /\ path_pc[ep] = "union"
    /\ written' = [written EXCEPT ![ep] = @ \cup {Resolve(output_directory[ep] \o <<UnionName(ep)>>)}]
    /\ path_pc' = [path_pc EXCEPT ![ep] = "done"]
    /\ UNCHANGED <<env, layer_idx, output_directory, output_directory_shp, dirs>>
    /\ UNCHANGED <<runVars, mergeVars>>

NextPaths ==
    \/ \E ep \in Epochs : ResolveOutputDir(ep)
    \/ \E ep \in Epochs : ResolveShpDir(ep)
    \/ \E ep \in Epochs : WriteShp(ep)
    \/ \E ep \in Epochs : WriteCsv(ep)
    \/ \E ep \in Epochs : WriteUnion(ep)

\* ========================================================= specifications
vars == <<runVars, mergeVars, pathVars>>

\* the parts a specification leaves idle
IdleRun ==
    /\ epoch = "future" /\ pc = "idle" /\ loaded = 0 /\ idx = 0 /\ budget = 0
    /\ atomic_polygons = EmptyTable /\ present_311 = <<>> /\ intersection_result = <<>>
    /\ new_field_names = <<>> /\ dataframes = <<>> /\ final_df = EmptyTable
    /\ files = {} /\ printed = <<>> /\ failed_at = <<>>

IdleMerge == merged = EmptyTable /\ suffix_counter = 0 /\ merge_pc = "idle"

IdlePaths ==
    /\ env = [BLUEZONES_BASE_DIR |-> Unset, BLUEZONES_OUTPUT_DIR |-> Unset]
    /\ path_pc = [ep \in Epochs |-> "idle"]
    /\ layer_idx = [ep \in Epochs |-> 0]
    /\ written = [ep \in Epochs |-> {}]
    /\ output_directory = [ep \in Epochs |-> <<>>]
    /\ output_directory_shp = [ep \in Epochs |-> <<>>]
    /\ dirs = {}

\* one epoch script, run from its first statement to its last
Init == InitRun /\ IdleMerge /\ IdlePaths

Next == NextRun

Spec == Init /\ [][Next]_vars

\* the merge loop of the three scripts, on arbitrary per-layer tables
InitMergeOnly == InitMerge /\ IdleRun /\ IdlePaths

NextMergeOnly == NextMerge

SpecMerge == InitMergeOnly /\ [][NextMergeOnly]_vars

\* the three epoch scripts resolving their output directories and writing
\* their files, as processes started with one environment, in any interleaving
InitPathsOnly == InitPaths /\ IdleRun /\ IdleMerge

NextPathsOnly == NextPaths

SpecPaths == InitPathsOnly /\ [][NextPathsOnly]_vars

\* ================================================== properties of the run
\* the final table as written: the run has reached the end of the script
FinalWritten == pc = "done"

\* the row of zone key k in the zone table
ZoneRow(k) == CHOOSE r \in Range(atomic_polygons.rows) : r[1] = k

\* the aggregate the dissolved table df holds for key k (its second column)
AggOf(df, k) == (CHOOSE r \in Range(df.rows) : r[1] = k)[2]

\* the columns thresholding creates: one per aggregate column, and the
\* point flag in the present run
LayerFlagNames ==
    Range([i \in DOMAIN new_field_names |-> new_field_names[i] \o "fg"])
    \cup (IF epoch = "present" THEN {"depcaAfg"} ELSE {})

\* C1: in the present and future runs, in every row of the final table the
\* epoch flag is 1 if and only if at least one per-layer flag created by
\* thresholding is 1, and it is 0 when all of them are 0.
C1_UnionIsOr ==
    (FinalWritten /\ epoch \in {"present", "future"}) =>
        /\ HasCol(final_df, "BZ_" \o epoch)
        /\ \A n \in LayerFlagNames : ColCount(final_df, n) = 1
        /\ \A r \in Range(final_df.rows) :
               /\ Cell(final_df, r, "BZ_" \o epoch) \in {Num(0), Num(1)}
               /\ (Cell(final_df, r, "BZ_" \o epoch) = Num(1))
                  <=> (\E n \in LayerFlagNames : Cell(final_df, r, n) = Num(1))

\* C1 witness: a written final table with a zone flagged by its last layer
\* only, and a zone no layer flags
C1_Witness ==
    /\ FinalWritten /\ epoch = "future"
    /\ \E r \in Range(final_df.rows) :
           /\ Cell(final_df, r, "BZ_future") = Num(1)
           /\ Cell(final_df, r, "mod_20Afg") = Num(0)
           /\ Cell(final_df, r, "500Afg") = Num(1)
    /\ \E r \in Range(final_df.rows) : Cell(final_df, r, "BZ_future") = Num(0)

\* C2 (as claimed): in the past run BZ_past of a zone is 1 if and only if
\* one single past layer has an aggregate of at least a tenth of the zone
\* area; aggregates of different layers are never added.
C2_PastIsOrOfLayers ==
    (FinalWritten /\ epoch = "past") =>
        \A r \in Range(final_df.rows) :
            (Cell(final_df, r, "BZ_past") = Num(1))
            <=> (\E i \in DOMAIN dataframes :
                    /\ HasKey(dataframes[i], r[1])
                    /\ 10 * AggOf(dataframes[i], r[1])[1] >= ZoneRow(r[1])[2][1])

\* C3: in the present and future runs, for every zone row and every area
\* layer the per-layer flag of the final table is 0 or 1, and it is 1 if and
\* only if the layer's dissolved table holds an aggregate for the zone that
\* is at least a tenth of the zone's area (equality included); a zone
\* without an aggregate gets 0.
C3_AreaFlagThreshold ==
    (FinalWritten /\ epoch \in {"present", "future"}) =>
        \A i \in DOMAIN new_field_names :
            /\ ColCount(final_df, new_field_names[i] \o "fg") = 1
            /\ \A r \in Range(final_df.rows) :
                   LET flag == Cell(final_df, r, new_field_names[i] \o "fg")
                   IN  /\ flag \in {Num(0), Num(1)}
                       /\ (flag = Num(1))
                          <=> /\ HasKey(dataframes[i], r[1])
                              /\ 10 * AggOf(dataframes[i], r[1])[1] >= ZoneRow(r[1])[2][1]

\* C3 witness: one written table holding a zone flagged on an aggregate of
\* exactly a tenth of its area, and a zone with no aggregate flagged 0
C3_Witness ==
    /\ FinalWritten /\ epoch = "future"
    /\ \E r \in Range(final_df.rows) :
           /\ HasKey(dataframes[1], r[1])
           /\ 10 * AggOf(dataframes[1], r[1])[1] = ZoneRow(r[1])[2][1]
           /\ Cell(final_df, r, "mod_20Afg") = Num(1)
    /\ \E r \in Range(final_df.rows) :
           /\ ~HasKey(dataframes[1], r[1])
           /\ Cell(final_df, r, "mod_20Afg") = Num(0)

\* the number of rows of table t with key k
KeyCount(t, k) == Cardinality({i \in DOMAIN t.rows : t.rows[i][1] = k})

\* C4: in each of the three runs the final table holds exactly one row for
\* every record of the zone table and no other row, whatever the layers
\* produced.
C4_OneRowPerZone ==
    FinalWritten =>
        /\ Len(final_df.rows) = Len(atomic_polygons.rows)
        /\ \A k \in ZoneIds(atomic_polygons) : KeyCount(final_df, k) = 1
        /\ \A r \in Range(final_df.rows) : r[1] \in ZoneIds(atomic_polygons)

\* C4 witness: a written table of a run in which one zone overlaps no layer
\* and another overlaps only some of the layers
C4_Witness ==
    /\ FinalWritten
    /\ \E k \in ZoneIds(atomic_polygons) : \A i \in DOMAIN dataframes : ~HasKey(dataframes[i], k)
    /\ \E k \in ZoneIds(atomic_polygons) :
           /\ \E i \in DOMAIN dataframes : HasKey(dataframes[i], k)
           /\ \E i \in DOMAIN dataframes : ~HasKey(dataframes[i], k)

\* the layer aggregated last: its fragments are still in intersection_result
JustAggregated ==
    /\ Len(new_field_names) >= 1
    /\ Len(dataframes) >= Len(new_field_names)

LastLayer == FirstOverlay(epoch) + Len(new_field_names) - 1

\* the positions of the fragments of zone key k
FragsOf(frs, k) == {i \in DOMAIN frs : frs[i].unique_id = k}

\* the areas at the positions S added up, in no particular order
RECURSIVE TotalArea(_, _)
TotalArea(frs, S) ==
    IF S = {} THEN 0
    ELSE LET i == CHOOSE j \in S : TRUE
         IN  frs[i].area + TotalArea(frs, S \ {i})

\* one fragment per zone, of the zone's total area
OneFragmentPerZone(frs) ==
    Map(GroupKeys(frs), LAMBDA k : Fragment(k, TotalArea(frs, FragsOf(frs, k))))

\* C5: the aggregate of a zone in a layer is the sum of the areas of all the
\* layer's fragments carrying the zone's unique_id, whatever their number
\* and order: every reordering of the fragments, and the single fragment of
\* the summed area, give the same dissolved table, and the flag of the final
\* table is the threshold applied to that sum.
C5_AggregateIsFragmentSum ==
    JustAggregated =>
        LET frs == intersection_result
            df == dataframes[Len(new_field_names)]
            ff == Shapefiles(epoch)[LastLayer].flag_field
            cc == ClassCols(epoch, LastLayer)
        IN  /\ \A k \in ZoneIds(atomic_polygons) \ {NaN} :
                   IF FragsOf(frs, k) = {} THEN ~HasKey(df, k)
                   ELSE /\ KeyCount(df, k) = 1
                        /\ AggOf(df, k) = Num(TotalArea(frs, FragsOf(frs, k)))
            /\ \A q \in Permutations(DOMAIN frs) :
                   Dissolve([i \in DOMAIN frs |-> frs[q[i]]], ff, cc) = df
            /\ Dissolve(OneFragmentPerZone(frs), ff, cc) = df
            /\ (FinalWritten /\ epoch \in {"present", "future"}) =>
                   \A r \in Range(final_df.rows) :
                       (Cell(final_df, r, NewFieldName(ff) \o "fg") = Num(1))
                       <=> /\ ~IsNaN(r[1])
                           /\ FragsOf(frs, r[1]) # {}
                           /\ 10 * TotalArea(frs, FragsOf(frs, r[1])) >= ZoneRow(r[1])[2][1]

\* C5 witness: a zone touched by two fragments of the last layer, each below
\* a tenth of the zone, flagged 1 on their sum
C5_Witness ==
    /\ FinalWritten /\ epoch = "future"
    /\ \E r \in Range(final_df.rows) :
           /\ Cardinality(FragsOf(intersection_result, r[1])) = 2
           /\ \A i \in FragsOf(intersection_result, r[1]) :
                  10 * intersection_result[i].area < ZoneRow(r[1])[2][1]
           /\ AggOf(dataframes[3], r[1]) = Num(2)
           /\ Cell(final_df, r, "500Afg") = Num(1)

\* the Point_Coun the 311 layer carries for zone key k
HasPoints(k) == \E i \in DOMAIN present_311 : present_311[i].unique_id = k
PointsOf(k) == present_311[CHOOSE i \in DOMAIN present_311 : present_311[i].unique_id = k].Point_Coun

\* C6: in the present run the point flag of a zone with a unique_id is 1 if
\* and only if the 311 layer gives the zone a point count of at least 3,
\* whatever its area overlap; a zone with exactly 3 points and no fragment
\* in any area layer is in the final table with depcaAfg = 1 and every area
\* flag 0.
C6_PointFlag ==
    (FinalWritten /\ epoch = "present") =>
        \A k \in ZoneIds(atomic_polygons) \ {NaN} :
            /\ KeyCount(final_df, k) = 1
            /\ \A r \in Range(final_df.rows) : r[1] = k =>
                   /\ (Cell(final_df, r, "depcaAfg") = Num(1)) <=> (HasPoints(k) /\ PointsOf(k) >= 3)
                   /\ (Cell(final_df, r, "depcaAfg") = Num(0)) <=> ~(HasPoints(k) /\ PointsOf(k) >= 3)
                   /\ (/\ HasPoints(k) /\ PointsOf(k) = 3
                       /\ ~HasKey(dataframes[1], k) /\ ~HasKey(dataframes[2], k))
                      => /\ Cell(final_df, r, "depcaAfg") = Num(1)
                         /\ Cell(final_df, r, "mod_cAfg") = Num(0)
                         /\ Cell(final_df, r, "100Afg") = Num(0)

\* C6 witness: a zone with exactly 3 points and no area overlap, flagged by
\* the point layer alone, beside a zone the point layer does not flag and
\* an area layer does
C6_Witness ==
    /\ FinalWritten /\ epoch = "present"
    /\ \E r \in Range(final_df.rows) :
           /\ HasPoints(r[1]) /\ PointsOf(r[1]) = 3
           /\ ~HasKey(dataframes[1], r[1]) /\ ~HasKey(dataframes[2], r[1])
           /\ Cell(final_df, r, "depcaAfg") = Num(1)
           /\ Cell(final_df, r, "mod_cAfg") = Num(0)
           /\ Cell(final_df, r, "100Afg") = Num(0)
           /\ Cell(final_df, r, "BZ_present") = Num(1)
    /\ \E r \in Range(final_df.rows) :
           /\ Cell(final_df, r, "depcaAfg") = Num(0)
           /\ Cell(final_df, r, "mod_cAfg") = Num(1)

\* the overlay loop has gone through every entry it visits
AllLayersDone ==
    /\ loaded = Len(Shapefiles(epoch)) + 1
    /\ Len(new_field_names) = Len(OverlayLayers(epoch))
    /\ Len(dataframes) = Len(Shapefiles(epoch))
    /\ \A i \in DOMAIN OverlayLayers(epoch) :
           /\ ShpName(epoch, OverlayLayers(epoch)[i].flag_field) \in files
           /\ CsvName(OverlayLayers(epoch)[i].flag_field) \in files

\* C8: the final union table is written only after every configured layer
\* has been loaded and aggregated and every area layer overlaid; a failing
\* load, overlay or aggregation ends the run where it fails: nothing runs
\* after it, no later layer is processed, and the run has written no final
\* union table.
C8_AllOrNothing ==
    /\ (UnionName(epoch) \in files) => AllLayersDone
    /\ (pc = "failed") =>
           /\ UnionName(epoch) \notin files
           /\ ~ENABLED Next
           /\ failed_at[1] = "load" =>
                  /\ loaded = failed_at[2]
                  /\ dataframes = <<>> /\ new_field_names = <<>> /\ files = {}
           /\ failed_at[1] = "overlay" =>
                  /\ Len(new_field_names) = failed_at[2] - FirstOverlay(epoch)
                  /\ Len(dataframes) = failed_at[2] - FirstOverlay(epoch)
           /\ failed_at[1] = "aggregate" =>
                  /\ Len(new_field_names) = failed_at[2] - FirstOverlay(epoch) + 1
                  /\ Len(dataframes) = failed_at[2] - FirstOverlay(epoch)

\* C8 witness: a run that failed in the overlay of a later layer, with the
\* earlier layer's files written and no union table
C8_Witness ==
    /\ pc = "failed" /\ failed_at[1] = "overlay"
    /\ Len(dataframes) >= 1
    /\ CsvName(Shapefiles(epoch)[FirstOverlay(epoch)].flag_field) \in files
    /\ UnionName(epoch) \notin files

\* C10 (as claimed): after a layer is aggregated, the run has reported the
\* number of fragment records left out for lacking a unique_id.
C10_SkipsReported ==
    (JustAggregated /\ NullKeyCount(intersection_result) > 0) =>
        \E i \in DOMAIN printed :
            /\ printed[i].text = "Skipped"
            /\ printed[i].arg = ToString(NullKeyCount(intersection_result))

\* C7 (as claimed): after any sequence of merge steps no two columns of the
\* merged table carry the same name.
C7_NoDuplicateColumns ==
    \A i, j \in DOMAIN merged.columns : i # j => merged.columns[i] # merged.columns[j]

\* the directory a resolved output path names
Dir(ep) == Resolve(output_directory[ep])

OverrideSet == env.BLUEZONES_OUTPUT_DIR.set /\ env.BLUEZONES_OUTPUT_DIR.value # <<>>

\* C9 (as claimed): for every setting of the overrides the output
\* directories of the three runs are pairwise different.
C9_DirsPairwiseDifferent ==
    \A e1, e2 \in Epochs :
        (e1 # e2 /\ path_pc[e1] # "start" /\ path_pc[e2] # "start") => Dir(e1) # Dir(e2)

\* C9 (amended): with BLUEZONES_OUTPUT_DIR unset or empty the output
\* directories of the three runs are pairwise different, for every setting
\* of BLUEZONES_BASE_DIR; with it set, every run resolves the directory it names.
C9_DirsDifferentWithoutOverride ==
    \A e1, e2 \in Epochs :
        (e1 # e2 /\ path_pc[e1] # "start" /\ path_pc[e2] # "start") =>
            /\ ~OverrideSet => Dir(e1) # Dir(e2)
            /\ OverrideSet => Dir(e1) = Resolve(env.BLUEZONES_OUTPUT_DIR.value)

\* C9 witness: the three runs have resolved three different directories
\* under a BLUEZONES_BASE_DIR that is set
C9_Witness ==
    /\ env.BLUEZONES_BASE_DIR.set /\ ~OverrideSet
    /\ \A ep \in Epochs : path_pc[ep] = "ready"
    /\ Cardinality({Dir(ep) : ep \in Epochs}) = 3
    /\ \A ep \in Epochs : Dir(ep) \in dirs

\* the run has set the per-layer flags and the epoch flag
FlagsSet == pc \in {"write", "done"}

\* C11: in the present and future runs, once the flags are set, the set of
\* per-layer flag columns that thresholding created (one <aggregate>fg per
\* overlaid layer, and depcaAfg in the present run) is exactly the set of
\* names the epoch union looks up, and each of these names is a column of the
\* final table, so that no lookup falls back to the default 0.
C11_FlagNamesAreUnionNames ==
    (FlagsSet /\ epoch \in {"present", "future"}) =>
        /\ LayerFlagNames = Range(UnionFlags(epoch))
        /\ Cardinality(LayerFlagNames) = Len(Shapefiles(epoch))
        /\ \A n \in Range(UnionFlags(epoch)) : ColCount(final_df, n) = 1

\* a present run that set its flags, with a zone flagged by the point layer
\* alone and every name of the union present as a column
C11_Witness ==
    /\ FlagsSet /\ epoch = "present"
    /\ Range(UnionFlags(epoch)) \subseteq Range(final_df.columns)
    /\ \E r \in Range(final_df.rows) :
           /\ Cell(final_df, r, "depcaAfg") = Num(1)
           /\ Cell(final_df, r, "mod_cAfg") = Num(0)
           /\ Cell(final_df, r, "100Afg") = Num(0)
           /\ Cell(final_df, r, "BZ_present") = Num(1)

\* the non-key column names of the per-layer tables, table by table, in the
\* order the merge loop meets them
LayerColumns == Flatten([i \in DOMAIN dataframes |-> NonKey(dataframes[i])])

\* the outer and left merges are done
Merged == pc \in {"threshold", "write", "done"}

\* C12: in every epoch run the non-key column names of the per-layer
\* dissolved tables (aggregate name, flag_field, propagated class attribute,
\* and depcall and Point_Coun in the present run) are pairwise distinct
\* across all layers; hence, once merged, the table holds every one of them
\* exactly once under its unsuffixed name, each layer's aggregate column
\* included.
C12_LayerColumnsDistinct ==
    LET cols == LayerColumns
        names == Range(cols)
    IN  /\ Cardinality(names) = Len(cols)
        /\ \A i \in DOMAIN dataframes :
               i <= Len(new_field_names) => dataframes[i].columns[2] = new_field_names[i]
        /\ Merged =>
               LET final == Range(Tail(final_df.columns))
               IN  /\ Cardinality(final) = Len(final_df.columns) - 1
                   /\ names \subseteq final
                   /\ Range(new_field_names) \subseteq names

\* a past run that merged the tables of all ten layers, two of which hold an
\* aggregate for some zone
C12_Witness ==
    /\ Merged /\ epoch = "past"
    /\ Len(dataframes) = Len(shapefiles_past)
    /\ \E i, j \in DOMAIN dataframes :
           /\ i # j
           /\ \E r \in Range(final_df.rows) : ~IsNaN(Cell(final_df, r, new_field_names[i]))
           /\ \E r \in Range(final_df.rows) : ~IsNaN(Cell(final_df, r, new_field_names[j]))

\* C13: for every setting of the path overrides, BLUEZONES_OUTPUT_DIR naming
\* one directory for all three runs included, and at every point of every
\* interleaving of the three runs, the sets of file paths written by two
\* different runs (per-layer CSVs, shapefiles with their sidecars, the
\* union CSV) are disjoint: no run writes a path another run has written.
C13_OutputFilesDisjoint ==
    \A e1, e2 \in Epochs : e1 # e2 => written[e1] \cap written[e2] = {}

\* the three runs have finished in one shared output directory, each having
\* written its union CSV and the CSV and shapefile of each of its layers there
C13_Witness ==
    /\ OverrideSet
    /\ \A ep \in Epochs : path_pc[ep] = "done"
    /\ Cardinality({Dir(ep) : ep \in Epochs}) = 1
    /\ \A ep \in Epochs :
           /\ Dir(ep) \o <<UnionName(ep)>> \in written[ep]
           /\ Cardinality(written[ep]) = 6 * Len(OverlayLayers(ep)) + 1

====
